---- MODULE Spec2Model ----
(***************************************************************************)
(* The ScopeIQ deck builders (src/docs/build_scopeiq_full_deck_nofile.py   *)
(* and build_scopeiq_mini_deck_nofile.py) as a state machine.              *)
(*                                                                         *)
(* The scripts build a python-pptx Presentation slide by slide, render     *)
(* chart images through matplotlib's process-wide pyplot state, and save   *)
(* the document once at the end.  An exception raised anywhere is not      *)
(* caught: it ends the script.                                             *)
(*                                                                         *)
(* Lengths are python-pptx EMU integers.  Inches(x) is int(x * 914400.0)   *)
(* on IEEE doubles, so the doubles are modelled bit by bit (below) and     *)
(* the truncation of Inches() is part of the model.                        *)
(***************************************************************************)
EXTENDS Integers, Sequences, FiniteSets, TLC

----------------------------------------------------------------------------
(* Bounds of the model *)

\* slides of one build under Spec
MaxSlides == 2
\* bullets of one bullet list
MaxBullets == 2
\* body rows of one table
MaxRows == 2
\* header cells of one table; a row has up to MaxCols + 1 cells
MaxCols == 2
\* images of one image row
MaxImages == 5
\* points of one chart series
MaxPoints == 2
\* fraction bits of the fixed-point numbers that carry the doubles
FracBits == 64

----------------------------------------------------------------------------
(* IEEE-754 doubles, as Python computes with them.                          *)
(* A non-negative number is a sequence of bits, least significant first;   *)
(* bit i weighs 2^(i - 1 - FracBits).  Every operation is computed exactly *)
(* and then rounded to 53 significant bits, ties to even.                  *)
(* The tests "x < 0" and "Len(acc) < 0" in the recursions are never true:  *)
(* they make TLC evaluate the accumulators at every step.                  *)

\* significand bits of a double
MantBits == 53
\* pptx.util.Length._EMUS_PER_INCH
EMUS_PER_INCH == 914400

RECURSIVE NatBits(_)
NatBits(n) == IF n = 0 THEN <<>> ELSE <<n % 2>> \o NatBits(n \div 2)

BitAt(b, i) == IF i >= 1 /\ i <= Len(b) THEN b[i] ELSE 0

\* the index of the highest 1 bit, 0 if there is none
RECURSIVE TopFrom(_, _)
TopFrom(b, i) == IF i = 0 THEN 0 ELSE IF b[i] = 1 THEN i ELSE TopFrom(b, i - 1)

TopBit(b) == TopFrom(b, Len(b))

\* the FracBits - 1 leading fraction bits of r / d (r < d), below them one
\* sticky bit that is 1 iff the rest of the expansion is not zero
RECURSIVE FracDigits(_, _, _, _)
FracDigits(r, d, k, acc) ==
    IF k = 0 \/ r < 0 \/ Len(acc) < 0
    THEN <<(IF r # 0 THEN 1 ELSE 0)>> \o acc
    ELSE FracDigits((2 * r) % d, d, k - 1, <<(2 * r) \div d>> \o acc)

FixRatio(n, d) == FracDigits(n % d, d, FracBits - 1, <<>>) \o NatBits(n \div d)

RECURSIVE AddFrom(_, _, _, _, _)
AddFrom(a, b, i, c, acc) ==
    IF (i > Len(a) /\ i > Len(b)) \/ c < 0 \/ Len(acc) < 0
    THEN (IF c = 0 THEN acc ELSE Append(acc, c))
    ELSE AddFrom(a, b, i + 1, (BitAt(a, i) + BitAt(b, i) + c) \div 2,
                 Append(acc, (BitAt(a, i) + BitAt(b, i) + c) % 2))

BigAdd(a, b) == AddFrom(a, b, 1, 0, <<>>)

\* a - b for a >= b; c is the borrow
RECURSIVE SubFrom(_, _, _, _, _)
SubFrom(a, b, i, c, acc) ==
    IF i > Len(a) \/ c < 0 \/ Len(acc) < 0
    THEN acc
    ELSE SubFrom(a, b, i + 1,
                 (IF a[i] - BitAt(b, i) - c < 0 THEN 1 ELSE 0),
                 Append(acc, (a[i] - BitAt(b, i) - c + 2) % 2))

BigSub(a, b) == SubFrom(a, b, 1, 0, <<>>)

RECURSIVE MulFrom(_, _, _, _, _)
MulFrom(a, m, i, c, acc) ==
    IF i > Len(a) \/ c < 0 \/ Len(acc) < 0
    THEN acc \o NatBits(c)
    ELSE MulFrom(a, m, i + 1, (a[i] * m + c) \div 2, Append(acc, (a[i] * m + c) % 2))

BigMulSmall(a, m) == MulFrom(a, m, 1, 0, <<>>)

\* round to nearest double, ties to even
RoundDouble(b) ==
    LET h   == TopBit(b)
        cut == h - (MantBits - 1)
    IN  IF cut <= 1 THEN b
        ELSE LET up   == b[cut - 1] = 1
                         /\ (b[cut] = 1 \/ \E i \in 1..(cut - 2) : b[i] = 1)
                 kept == [i \in 1..Len(b) |-> IF i >= cut THEN b[i] ELSE 0]
                 one  == [i \in 1..cut |-> IF i = cut THEN 1 ELSE 0]
             IN  IF up THEN BigAdd(kept, one) ELSE kept

RECURSIVE TruncFrom(_, _, _)
TruncFrom(b, i, acc) ==
    IF i <= FracBits \/ acc < 0 THEN acc ELSE TruncFrom(b, i - 1, 2 * acc + b[i])

\* int(f) of a non-negative double
Trunc(b) == TruncFrom(b, Len(b), 0)

\* the double n / d; also the decimal literal n/d (3.3 is Lit(33, 10))
FDiv(n, d) == RoundDouble(FixRatio(n, d))
Lit(n, d) == FDiv(n, d)
FAdd(a, b) == RoundDouble(BigAdd(a, b))
FSub(a, b) == RoundDouble(BigSub(a, b))
FMulInt(a, m) == RoundDouble(BigMulSmall(a, m))

\* pptx.util.Inches(f): int(f * float(914400))
Inches(f) == Trunc(FMulInt(f, EMUS_PER_INCH))
\* pptx.util.Length.inches: self / float(914400)
LengthInches(emu) == FDiv(emu, EMUS_PER_INCH)
\* pptx.util.Pt(n), kept in points
Pt(n) == n

----------------------------------------------------------------------------
(* Slides.  A slide keeps what the builders put on it:                      *)
(*   paras   paragraphs of the body placeholder (layout 1)                  *)
(*   grid    rows of cells of the table, frame its graphic frame            *)
(*   pics    pictures, boxes/lines/notes the shapes of a diagram            *)
(*   marks   watermark text boxes, badges "AI" ovals with their label       *)

Para(text, size) == [text |-> text, size |-> size]
EmptyPara == Para("", 0)
Cell(text, bold, size) == [text |-> text, bold |-> bold, size |-> size]
EmptyCell == Cell("", FALSE, 0)
Rect(x, y, w, h) == [x |-> x, y |-> y, w |-> w, h |-> h]

\* a slide fresh from prs.slides.add_slide(prs.slide_layouts[layout]):
\* layout 0 title + subtitle, 1 title + body, 5 title only
NewSlide(layout) ==
    [layout |-> layout, title |-> "", sub |-> "",
     paras  |-> IF layout = 1 THEN <<EmptyPara>> ELSE <<>>,
     grid   |-> <<>>, frame |-> <<>>, pics |-> <<>>,
     boxes  |-> <<>>, lines |-> <<>>, notes |-> <<>>,
     marks  |-> <<>>, badges |-> <<>>]

\* a variant of add_slide that puts the new slide in front
add_slide_first(p, s) == <<s>> \o p

\* prs.slides.add_slide: the new slide goes to the end
add_slide(p, s) == Append(p, s)

\* Inches(7.0), Inches(6.7), Inches(3.0), Inches(0.5)
WATERMARK_BOX ==
    [x |-> Inches(Lit(70, 10)), y |-> Inches(Lit(67, 10)),
     w |-> Inches(Lit(30, 10)), h |-> Inches(Lit(5, 10))]
\* Inches(0.25), Inches(6.8), Inches(0.35), Inches(0.35)
BADGE_BOX ==
    [x |-> Inches(Lit(25, 100)), y |-> Inches(Lit(68, 10)),
     w |-> Inches(Lit(35, 100)), h |-> Inches(Lit(35, 100))]

add_watermark(slide) ==
    [slide EXCEPT !.marks = Append(@, [box |-> WATERMARK_BOX, text |-> "ScopeIQ", size |-> Pt(16)])]

add_tiny_ai_icon(slide) ==
    [slide EXCEPT !.badges = Append(@, [oval |-> BADGE_BOX, label |-> BADGE_BOX, text |-> "AI", size |-> Pt(10)])]

\* a variant of decorate that leaves the title slide (layout 0) bare
decorate_content_only(slide) ==
    IF slide.layout = 0 THEN slide ELSE add_tiny_ai_icon(add_watermark(slide))

\* "add_watermark(s); add_tiny_ai_icon(s)", the last line of every slide
decorate(slide) == add_tiny_ai_icon(add_watermark(slide))

Ok(slide) == [slide |-> slide, err |-> "none"]
Raise(slide, e) == [slide |-> slide, err |-> e]

----------------------------------------------------------------------------
(* add_bullets_slide *)

\* text_frame.clear(): all paragraphs but one empty one are removed
clear(paras) == <<EmptyPara>>

\* a variant of bullet_paragraph that adds a paragraph for the first bullet too
bullet_paragraph_added(body, i, b) == Append(body, Para(b, Pt(14)))

\* one turn of the loop: "p = body.add_paragraph() if i else body.paragraphs[0]",
\* then p.text and p.font.size (i counts from 0)
bullet_paragraph(body, i, b) ==
    IF i # 0 THEN Append(body, Para(b, Pt(14)))
    ELSE [body EXCEPT ![1] = Para(b, Pt(14))]

RECURSIVE bullet_loop(_, _, _)
bullet_loop(body, bullets, i) ==
    IF i >= Len(bullets) \/ Len(body) < 0 THEN body
    ELSE bullet_loop(bullet_paragraph(body, i, bullets[i + 1]), bullets, i + 1)

add_bullets_slide(title, bullets) ==
    LET s == [NewSlide(1) EXCEPT !.title = title]
    IN  Ok(decorate([s EXCEPT !.paras = bullet_loop(clear(s.paras), bullets, 0)]))

----------------------------------------------------------------------------
(* add_table_slide *)

row_count(rows) == 1 + Len(rows)
col_count(headers) == Len(headers)

\* shapes.add_table(...).table: python-pptx divides the width by the number
\* of columns (ZeroDivisionError for none), then makes rows x cols empty cells
new_tbl(nrows, ncols) == [i \in 1..nrows |-> [j \in 1..ncols |-> EmptyCell]]

\* Inches(0.5), Inches(1.4), Inches(9.0), Inches(1.2 + 0.35*row_count)
FRAME_LEFT == Inches(Lit(5, 10))
FRAME_TOP == Inches(Lit(14, 10))
FRAME_WIDTH == Inches(Lit(90, 10))
FRAME_HEIGHT == [n \in 1..(MaxRows + 1) |-> Inches(FAdd(Lit(12, 10), FMulInt(Lit(35, 100), n)))]

table_frame(nrows) == Rect(FRAME_LEFT, FRAME_TOP, FRAME_WIDTH, FRAME_HEIGHT[nrows])

\* "for j, h in enumerate(headers)": bold, 12 pt
fill_headers(grid, headers) ==
    [grid EXCEPT ![1] = [j \in 1..Len(headers) |-> Cell(headers[j], TRUE, Pt(12))]]

\* a variant of fill_row that writes every value of the row to tbl.cell(i, 0)
fill_row_first_column(grid, i, r) ==
    [grid |-> [grid EXCEPT ![i] = [j \in 1..Len(grid[i]) |->
                  IF j = 1 /\ Len(r) > 0 THEN Cell(r[Len(r)], FALSE, Pt(12)) ELSE @[j]]],
     err  |-> "none"]

\* "for j, val in enumerate(r)" on grid row i: tbl.cell(i, j) raises IndexError
\* at the first j past the last column; the cells before it are already set
fill_row(grid, i, r) ==
    LET n == Len(grid[i])
        g == [grid EXCEPT ![i] = [j \in 1..n |->
                  IF j <= Len(r) THEN Cell(r[j], FALSE, Pt(12)) ELSE @[j]]]
    IN  [grid |-> g, err |-> IF Len(r) > n THEN "IndexError" ELSE "none"]

\* "for i, r in enumerate(rows, start=1)"
RECURSIVE fill_rows(_, _, _)
fill_rows(grid, rows, i) ==
    IF i > Len(rows) \/ Len(grid) < 0 THEN [grid |-> grid, err |-> "none"]
    ELSE LET f == fill_row(grid, i + 1, rows[i])
         IN  IF f.err # "none" THEN f ELSE fill_rows(f.grid, rows, i + 1)

add_table_slide(title, headers, rows) ==
    LET s == [NewSlide(5) EXCEPT !.title = title]
    IN  IF col_count(headers) = 0 THEN Raise(s, "ZeroDivisionError")
        ELSE LET g == fill_headers(new_tbl(row_count(rows), col_count(headers)), headers)
                 f == fill_rows(g, rows, 1)
                 t == [s EXCEPT !.grid = f.grid, !.frame = <<table_frame(row_count(rows))>>]
             IN  IF f.err # "none" THEN Raise(t, f.err) ELSE Ok(decorate(t))

----------------------------------------------------------------------------
(* add_chart_png *)

\* whether the plotting calls of the kind accept x and y: plt.plot needs equal
\* lengths; plt.bar and plt.fill_between broadcast, so a length of 1 fits any
plot_accepts(kind, x, y) ==
    CASE kind = "line" -> Len(x) = Len(y)
      [] kind = "bar"  -> Len(x) = Len(y) \/ Len(x) = 1 \/ Len(y) = 1
      [] kind = "area" -> Len(x) = Len(y)
      [] OTHER         -> TRUE

\* figure() opens a figure in pyplot's registry; savefig writes the file;
\* close() is reached only if nothing raised before it
add_chart_png(path, kind, x, y, title) ==
    IF plot_accepts(kind, x, y)
    THEN [err |-> "none", wrote |-> {path}, opened |-> 1, closed |-> 1]
    ELSE [err |-> "ValueError", wrote |-> {}, opened |-> 1, closed |-> 0]

----------------------------------------------------------------------------
(* add_images_row *)

\* the defaults top_in=1.5 and heights_in=2.5, the first left Inches(0.5), and
\* the pitch 3.3
ROW_TOP == Inches(Lit(15, 10))
ROW_HEIGHT == Inches(Lit(25, 10))
ROW_LEFT == Inches(Lit(5, 10))
ROW_PITCH == [i \in {1} |-> Lit(33, 10)]

\* "left = Inches(left.inches + 3.3)"
next_left(left) == Inches(FAdd(LengthInches(left), ROW_PITCH[1]))

\* "for img in image_paths": add_picture opens the file (FileNotFoundError
\* if there is none), the pictures before it stay on the slide
RECURSIVE place_images(_, _, _, _, _)
place_images(pics, image_paths, k, left, fs) ==
    IF k > Len(image_paths) \/ left < 0 \/ Len(pics) < 0 THEN [pics |-> pics, err |-> "none"]
    ELSE IF image_paths[k] \notin fs THEN [pics |-> pics, err |-> "FileNotFoundError"]
    ELSE place_images(Append(pics, [img |-> image_paths[k], left |-> left,
                                    top |-> ROW_TOP, height |-> ROW_HEIGHT]),
                      image_paths, k + 1, next_left(left), fs)

add_images_row(title, image_paths, fs) ==
    LET s == [NewSlide(5) EXCEPT !.title = title]
        r == place_images(<<>>, image_paths, 1, ROW_LEFT, fs)
        t == [s EXCEPT !.pics = r.pics]
    IN  IF r.err # "none" THEN Raise(t, r.err) ELSE Ok(decorate(t))

----------------------------------------------------------------------------
(* Diagram slides: add_service_box, add_connector.  Coordinates are given in *)
(* hundredths of an inch: 3.35 is 335.                                       *)

\* the diagrams of the plan
PlanDiagrams ==
    {[boxes |-> <<[label |-> "Client Layer", x |-> 50, y |-> 120, w |-> 900, h |-> 90],
                  [label |-> "AppSync", x |-> 580, y |-> 240, w |-> 220, h |-> 100]>>,
      lines |-> <<[x1 |-> 190, y1 |-> 240, x2 |-> 190, y2 |-> 120]>>]}

\* float('inf') and float('nan') as arguments; every other coordinate is
\* a finite number of hundredths of an inch, of either sign
INF == 2147483647
NAN == -2147483647
Finite(c) == c # INF /\ c # NAN

\* the arguments add_service_box is called with under SpecBuilders
BoxXs == {50, -30, INF}
BoxYs == {120, NAN}
BoxWs == {220, 10, -100, INF}
BoxHs == {90, -5, NAN}
Boxes == [label : {"Cognito"}, x : BoxXs, y : BoxYs, w : BoxWs, h : BoxHs]

\* the finite coordinates that occur in the diagrams and the boxes
Coords ==
    {c \in BoxXs \cup BoxYs \cup BoxWs \cup BoxHs : Finite(c)} \cup
    UNION {UNION {{d.boxes[k].x, d.boxes[k].y, d.boxes[k].w, d.boxes[k].h} : k \in DOMAIN d.boxes}
           \cup UNION {{d.lines[k].x1, d.lines[k].y1, d.lines[k].x2, d.lines[k].y2} : k \in DOMAIN d.lines}
           : d \in PlanDiagrams}

\* Inches(c) of a finite coordinate of either sign: the product has the
\* sign of c and int() truncates toward zero
inches_of(c) ==
    IF c >= 0 THEN Inches(Lit(c, 100)) ELSE -Inches(Lit(-c, 100))

\* Inches(c + 0.1): below -0.1 the sum is -(|c| - 0.1), from there to 0 it
\* is 0.1 - |c|
inset_of(c) ==
    IF c >= 0 THEN Inches(FAdd(Lit(c, 100), Lit(1, 10)))
    ELSE IF c <= -10 THEN -Inches(FSub(Lit(-c, 100), Lit(1, 10)))
    ELSE Inches(FSub(Lit(1, 10), Lit(-c, 100)))

\* Inches(c - 0.2): below 0.2 the difference is -(0.2 - c), below 0 it is
\* -(|c| + 0.2)
shrunk_of(c) ==
    IF c >= 20 THEN Inches(FSub(Lit(c, 100), Lit(2, 10)))
    ELSE IF c >= 0 THEN -Inches(FSub(Lit(2, 10), Lit(c, 100)))
    ELSE -Inches(FAdd(Lit(-c, 100), Lit(2, 10)))

\* Inches(c), Inches(c + 0.1) and Inches(c - 0.2) of a coordinate c
INCHES == [c \in Coords |-> inches_of(c)]
INSET == [c \in Coords |-> inset_of(c)]
SHRUNK == [c \in Coords |-> shrunk_of(c)]

\* what int(x * 914400) raises for a non-finite x
inches_error(c) ==
    IF c = INF THEN "OverflowError" ELSE IF c = NAN THEN "ValueError" ELSE "none"

\* the arguments Inches(x), Inches(y), Inches(w), Inches(h) of add_shape are
\* evaluated in this order, before any shape is made: the first that raises
\* ends the call
box_error(b) ==
    IF ~Finite(b.x) THEN inches_error(b.x)
    ELSE IF ~Finite(b.y) THEN inches_error(b.y)
    ELSE IF ~Finite(b.w) THEN inches_error(b.w)
    ELSE inches_error(b.h)

\* the rectangle, then the label text box; neither add_shape nor add_textbox
\* looks at the sign of a width or a height
add_service_box(slide, b) ==
    IF box_error(b) # "none" THEN Raise(slide, box_error(b))
    ELSE Ok([slide EXCEPT !.boxes = Append(@,
                [rect  |-> Rect(INCHES[b.x], INCHES[b.y], INCHES[b.w], INCHES[b.h]),
                 label |-> Rect(INSET[b.x], INSET[b.y], SHRUNK[b.w], SHRUNK[b.h]),
                 text  |-> b.label])])

add_connector(slide, c) ==
    [slide EXCEPT !.lines = Append(@,
        [x1 |-> INCHES[c.x1], y1 |-> INCHES[c.y1], x2 |-> INCHES[c.x2], y2 |-> INCHES[c.y2]])]

\* the add_service_box calls of a slide, up to the first that raises
RECURSIVE box_loop(_, _, _)
box_loop(slide, bs, k) ==
    IF k > Len(bs) \/ Len(slide.boxes) < 0 THEN Ok(slide)
    ELSE LET r == add_service_box(slide, bs[k])
         IN  IF r.err # "none" THEN r ELSE box_loop(r.slide, bs, k + 1)

RECURSIVE connector_loop(_, _, _)
connector_loop(slide, cs, k) ==
    IF k > Len(cs) \/ Len(slide.lines) < 0 THEN slide
    ELSE connector_loop(add_connector(slide, cs[k]), cs, k + 1)

\* Inches(0.5), Inches(5.9), Inches(9.0), Inches(0.7)
CAPTION_BOX ==
    [x |-> Inches(Lit(5, 10)), y |-> Inches(Lit(59, 10)),
     w |-> Inches(Lit(90, 10)), h |-> Inches(Lit(7, 10))]

\* the module body of a diagram slide: add_slide, title, boxes, connectors,
\* the caption text box, watermark and badge
diagram_slide(title, d) ==
    LET s == [NewSlide(5) EXCEPT !.title = title]
        r == box_loop(s, d.boxes, 1)
        t == connector_loop(r.slide, d.lines, 1)
    IN  IF r.err # "none" THEN r
        ELSE Ok(decorate([t EXCEPT !.notes = Append(@, CAPTION_BOX)]))

\* the module body of the title slide
title_slide(title, sub) ==
    Ok(decorate([NewSlide(0) EXCEPT !.title = title, !.sub = sub]))

----------------------------------------------------------------------------
(* Inputs *)

SeqsUpTo(S, n) == UNION {[1..k -> S] : k \in 0..n}

Titles == {"T", "U"}
BulletTexts == {"a", "b"}
ChartPaths == {"charts/kpi_mrr.png", "charts/kpi_conv.png"}
ChartKinds == {"line", "bar", "area", "other"}

HeaderText(j) == "H" \o ToString(j)
CellText(v, j) == v \o ToString(j)
Series(n) == [i \in 1..n |-> i]

\* what the builders are called with under SpecBuilders
BulletLists == SeqsUpTo(BulletTexts, MaxBullets)
HeaderLists == {[j \in 1..h |-> HeaderText(j)] : h \in 0..MaxCols}
TableRows == {[j \in 1..n |-> CellText(v, j)] : v \in {"x", "y"}, n \in 0..(MaxCols + 1)}
RowLists == SeqsUpTo(TableRows, MaxRows)
ImageLists == SeqsUpTo(ChartPaths, MaxImages)
Charts == [kind : ChartKinds, x : {Series(n) : n \in 0..MaxPoints},
           y : {Series(n) : n \in 0..MaxPoints}, path : ChartPaths]

\* the content plans the build under Spec draws its steps from
PlanBullets == {<<>>, <<"a", "b">>}
PlanTables == {[headers |-> <<"H1", "H2">>, rows |-> <<<<"x1", "x2">>, <<"y1", "y2">>>>],
               [headers |-> <<"H1">>, rows |-> <<<<"x1", "x2">>>>]}
PlanImages == {<<"charts/kpi_mrr.png">>, <<"charts/kpi_mrr.png", "charts/kpi_conv.png">>}
PlanCharts == {[kind |-> "line", x |-> Series(2), y |-> Series(2), path |-> "charts/kpi_mrr.png"],
               [kind |-> "bar", x |-> Series(2), y |-> Series(2), path |-> "charts/kpi_conv.png"],
               [kind |-> "area", x |-> Series(2), y |-> Series(1), path |-> "charts/kpi_conv.png"]}
----------------------------------------------------------------------------
(* State *)

VARIABLES
    prs,      \* prs.slides: the slides of the Presentation, in order
    plan,     \* the slide specs the build has come to, in order
    pre,      \* prs.slides as it was before the last step
    files,    \* the image files on disk
    figures,  \* open figures in pyplot's registry
    pc,       \* "run", "aborted" (an exception ended the script), "saved"
    err,      \* the exception that ended the script, or "none"
    saved,    \* the documents written by prs.save, each the slides it held
    last      \* the last step, with the arguments and the files of a chart render

vars == <<prs, plan, pre, files, figures, pc, err, saved, last>>

NoCall == [op |-> "none", kind |-> "", x |-> <<>>, y |-> <<>>, path |-> "", wrote |-> {}]

SlideSpec(kind, title) ==
    [kind |-> kind, title |-> title, bullets |-> <<>>, headers |-> <<>>, rows |-> <<>>,
     images |-> <<>>, boxes |-> <<>>, lines |-> <<>>]

Init ==
    /\ prs = <<>>
    /\ plan = <<>>
    /\ pre = <<>>
    /\ files = {}
    /\ figures = 0
    /\ pc = "run"
    /\ err = "none"
    /\ saved = <<>>
    /\ last = NoCall

\* the script is at a statement: nothing has raised, the document is not saved
Running == pc = "run"

\* one slide of the plan: r is what its builder did (the slide is in prs.slides
\* from the builder's first line on, whether or not the builder raises later)
SlideStep(spec, r) ==
    /\ prs' = add_slide(prs, r.slide)
    /\ plan' = Append(plan, spec)
    /\ pre' = prs
    /\ err' = r.err
    /\ pc' = IF r.err = "none" THEN "run" ELSE "aborted"
    /\ last' = [NoCall EXCEPT !.op = spec.kind]
    /\ UNCHANGED <<files, figures, saved>>

TitleSlide(may, T) ==
    /\ Running /\ may
    /\ \E t \in T :
        SlideStep(SlideSpec("title", t), title_slide(t, "subtitle"))

BulletsSlide(may, T, B) ==
    /\ Running /\ may
    /\ \E t \in T, b \in B :
        SlideStep([SlideSpec("bullets", t) EXCEPT !.bullets = b], add_bullets_slide(t, b))

TableSlide(may, T, HR) ==
    /\ Running /\ may
    /\ \E t \in T, hr \in HR :
        SlideStep([SlideSpec("table", t) EXCEPT !.headers = hr.headers, !.rows = hr.rows],
                  add_table_slide(t, hr.headers, hr.rows))

ImagesSlide(may, T, I) ==
    /\ Running /\ may
    /\ \E t \in T, im \in I :
        SlideStep([SlideSpec("images", t) EXCEPT !.images = im], add_images_row(t, im, files))

DiagramSlide(may, T, D) ==
    /\ Running /\ may
    /\ \E t \in T, d \in D :
        SlideStep([SlideSpec("diagram", t) EXCEPT !.boxes = d.boxes, !.lines = d.lines],
                  diagram_slide(t, d))

ChartStep(may, C) ==
    /\ Running /\ may
    /\ \E c \in C :
        LET r == add_chart_png(c.path, c.kind, c.x, c.y, "chart")
        IN  /\ files' = files \cup r.wrote
            /\ figures' = figures + r.opened - r.closed
            /\ err' = r.err
            /\ pc' = IF r.err = "none" THEN "run" ELSE "aborted"
            /\ last' = [op |-> "chart", kind |-> c.kind, x |-> c.x, y |-> c.y,
                        path |-> c.path, wrote |-> r.wrote]
    /\ pre' = prs
    /\ UNCHANGED <<prs, plan, saved>>

\* a variant of Save that also runs after an exception (as in a finally block)
SaveAnyway ==
    /\ pc # "saved"
    /\ saved' = Append(saved, prs)
    /\ pc' = "saved"
    /\ pre' = prs
    /\ last' = [NoCall EXCEPT !.op = "save"]
    /\ UNCHANGED <<prs, plan, files, figures, err>>

\* "prs.save(out)": the last statement, reached only if nothing raised
Save ==
    /\ Running
    /\ saved' = Append(saved, prs)
    /\ pc' = "saved"
    /\ pre' = prs
    /\ last' = [NoCall EXCEPT !.op = "save"]
    /\ UNCHANGED <<prs, plan, files, figures, err>>

\* a build of the deck: the steps of a plan, then the save
MoreSlides == Len(prs) < MaxSlides

Next ==
    \/ TitleSlide(MoreSlides, Titles)
    \/ BulletsSlide(MoreSlides, Titles, PlanBullets)
    \/ TableSlide(MoreSlides, Titles, PlanTables)
    \/ ChartStep(MoreSlides, PlanCharts)
    \/ ImagesSlide(MoreSlides, Titles, PlanImages)
    \/ DiagramSlide(MoreSlides, Titles, PlanDiagrams)
    \/ Save

Spec == Init /\ [][Next]_vars

\* one call of one builder on a fresh Presentation; the image files of earlier
\* renders may be on disk
InitBuilders ==
    /\ prs = <<>>
    /\ plan = <<>>
    /\ pre = <<>>
    /\ files \in SUBSET ChartPaths
    /\ figures = 0
    /\ pc = "run"
    /\ err = "none"
    /\ saved = <<>>
    /\ last = NoCall

FirstCall == last.op = "none"

NextBuilders ==
    \/ BulletsSlide(FirstCall, Titles, BulletLists)
    \/ TableSlide(FirstCall, Titles, [headers : HeaderLists, rows : RowLists])
    \/ ChartStep(FirstCall, Charts)
    \/ ImagesSlide(FirstCall, Titles, ImageLists)
    \/ DiagramSlide(FirstCall, Titles, {[boxes |-> <<b>>, lines |-> <<>>] : b \in Boxes})

SpecBuilders == InitBuilders /\ [][NextBuilders]_vars

----------------------------------------------------------------------------
(* Properties of the deck build (Spec) *)

\* whether slide is what the builder of spec leaves in prs.slides (an image
\* row is built with some set of image files on disk)
Produces(spec, slide) ==
    CASE spec.kind = "title"   -> slide = title_slide(spec.title, "subtitle").slide
      [] spec.kind = "bullets" -> slide = add_bullets_slide(spec.title, spec.bullets).slide
      [] spec.kind = "table"   -> slide = add_table_slide(spec.title, spec.headers, spec.rows).slide
      [] spec.kind = "images"  ->
            \E fs \in SUBSET ChartPaths : slide = add_images_row(spec.title, spec.images, fs).slide
      [] spec.kind = "diagram" ->
            slide = diagram_slide(spec.title, [boxes |-> spec.boxes, lines |-> spec.lines]).slide
      [] OTHER -> FALSE

PlanOrder ==
    /\ Len(prs) = Len(plan)
    /\ \A n \in DOMAIN plan : Produces(plan[n], prs[n])

AppendOnly ==
    /\ Len(prs') \in {Len(prs), Len(prs) + 1}
    /\ SubSeq(prs', 1, Len(prs)) = prs

\* C1: the Nth slide spec of the plan produces the Nth slide of the
\* Presentation, for every N and at every moment of the build; a step leaves
\* the slides as they are or appends one at the end, so none is reordered,
\* removed or merged with an identical one.
C1_PlanOrder == []PlanOrder /\ [][AppendOnly]_vars

\* a saved deck of two slides made from one and the same spec twice
C1_Witness ==
    /\ pc = "saved"
    /\ Len(prs) = 2
    /\ plan[1] = plan[2]
    /\ prs[1] = prs[2]

\* C2: every slide of a saved document carries exactly one watermark and
\* exactly one badge, and the watermark box and the badge boxes are the same
\* on all its slides, whatever they hold.
C2_Decorated ==
    \A d \in DOMAIN saved :
        /\ \A i \in DOMAIN saved[d] :
              Len(saved[d][i].marks) = 1 /\ Len(saved[d][i].badges) = 1
        /\ \A i, j \in DOMAIN saved[d] :
              /\ saved[d][i].marks[1].box = saved[d][j].marks[1].box
              /\ saved[d][i].badges[1].oval = saved[d][j].badges[1].oval
              /\ saved[d][i].badges[1].label = saved[d][j].badges[1].label

\* a saved deck with a title slide and a table slide
C2_Witness ==
    /\ pc = "saved"
    /\ Len(saved) = 1
    /\ \E i, j \in DOMAIN saved[1] :
          saved[1][i].layout = 0 /\ saved[1][j].grid # <<>>

AllDecorated(slides) ==
    \A i \in DOMAIN slides : Len(slides[i].marks) = 1 /\ Len(slides[i].badges) = 1

SavedLast ==
    /\ Len(saved) <= 1
    /\ (pc = "saved") <=> (Len(saved) = 1)
    /\ saved # <<>> => (saved[1] = prs /\ Len(prs) = Len(plan) /\ AllDecorated(saved[1]))
    /\ (err # "none" \/ pc = "aborted") => saved = <<>>

Finalized == saved # <<>> => UNCHANGED <<prs, saved, files>>

\* C7: the document is written at most once and only by the last step, when
\* every slide the plan has come to is assembled and decorated; after the save
\* the Presentation does not change and nothing is written again; a run in
\* which a chart render or a builder raised has written no document.
C7_SavedOnceLast == []SavedLast /\ [][Finalized]_vars

\* a saved deck of two slides, built after a chart was rendered
C7_Witness ==
    /\ pc = "saved"
    /\ Len(saved) = 1
    /\ Len(saved[1]) = 2
    /\ files # {}

----------------------------------------------------------------------------
(* Properties of one builder call (SpecBuilders) *)

TableCalled == last.op = "table" /\ Len(plan) = 1 /\ Len(prs) = 1

WellShaped(spec) == \A i \in DOMAIN spec.rows : Len(spec.rows[i]) = Len(spec.headers)

\* the grid holds the headers in row 0, bold, and rows[i-1][j] in cell (i, j)
GridOf(spec, grid) ==
    /\ Len(grid) = 1 + Len(spec.rows)
    /\ \A i \in DOMAIN grid : Len(grid[i]) = Len(spec.headers)
    /\ \A j \in DOMAIN spec.headers :
          grid[1][j].text = spec.headers[j] /\ grid[1][j].bold
    /\ \A i \in DOMAIN spec.rows : \A j \in DOMAIN spec.headers :
          grid[i + 1][j].text = spec.rows[i][j]

\* C3: a table slide with a row whose length is not len(headers) fails with
\* RowShapeMismatchError.
C3_MismatchRejected ==
    (TableCalled /\ ~WellShaped(plan[1]))
        => (pc = "aborted" /\ err = "RowShapeMismatchError")

C5_ShapeChecked ==
    last.op = "chart"
        => IF Len(last.x) = Len(last.y) /\ Len(last.x) >= 1
           THEN last.wrote = {last.path} /\ err # "ShapeMismatchError"
           ELSE err = "ShapeMismatchError" /\ last.wrote = {}

\* C6: no figure is open after add_chart_png has returned or raised.
C6_FigureReleased == last.op = "chart" => figures = 0

\* C8: after a bullet, table or image-row builder has raised, prs.slides is
\* what it was before the call.
C8_NoPartialSlide ==
    (pc = "aborted" /\ last.op \in {"bullets", "table", "images"}) => prs = pre

\* 0.5 + 3.3*k inches in EMU: the exact number, and Inches(0.5 + 3.3*k) as
\* Python computes it
CLOSED_FORM ==
    [k \in 0..MaxImages |->
        {(5 + 33 * k) * 91440, Inches(FAdd(Lit(5, 10), FMulInt(Lit(33, 10), k)))}]

\* C9: with all its image files on disk the image row is built without
\* error, holds exactly len(image_paths) pictures in input order at one top
\* and one height, and the k-th picture (k from 0) has its left edge at
\* 0.5 + 3.3*k inches.
C9_ClosedFormLefts ==
    (last.op = "images" /\ Len(plan) = 1 /\ \A k \in DOMAIN plan[1].images : plan[1].images[k] \in files)
        => /\ pc = "run"
           /\ Len(prs[1].pics) = Len(plan[1].images)
           /\ \A k \in DOMAIN prs[1].pics :
                 /\ prs[1].pics[k].img = plan[1].images[k]
                 /\ prs[1].pics[k].top = ROW_TOP
                 /\ prs[1].pics[k].height = ROW_HEIGHT
                 /\ prs[1].pics[k].left \in CLOSED_FORM[k - 1]

BulletsCalled == last.op = "bullets" /\ Len(plan) = 1 /\ Len(prs) = 1

\* paragraph i has the text of bullet i, and there are no other paragraphs
ParagraphPerBullet(bullets, paras) ==
    /\ Len(paras) = Len(bullets)
    /\ \A i \in DOMAIN bullets : paras[i].text = bullets[i]

\* C10 as stated: one body paragraph per bullet, none for an empty list.
C10_NoParagraphs ==
    BulletsCalled => (pc = "run" /\ ParagraphPerBullet(plan[1].bullets, prs[1].paras))

\* C10: for a non-empty bullet list the body has exactly one paragraph per
\* bullet, in input order; for an empty list the slide is titled and its body
\* keeps the one empty paragraph that clear() leaves; neither raises.
C10_Paragraphs ==
    BulletsCalled
        => /\ pc = "run" /\ err = "none"
           /\ prs[1].title = plan[1].title
           /\ IF plan[1].bullets = <<>>
              THEN prs[1].paras = <<EmptyPara>>
              ELSE ParagraphPerBullet(plan[1].bullets, prs[1].paras)

\* a bullet slide built from MaxBullets bullets, the first two different
C10_Witness ==
    /\ BulletsCalled
    /\ pc = "run"
    /\ Len(plan[1].bullets) = MaxBullets
    /\ plan[1].bullets[1] # plan[1].bullets[2]
    /\ Len(prs[1].paras) = MaxBullets

BoxCalled ==
    last.op = "diagram" /\ Len(plan) = 1 /\ Len(prs) = 1 /\ Len(plan[1].boxes) = 1

\* a negative width or height, or a coordinate that is not finite
InvalidGeometry(b) ==
    \/ ~Finite(b.x) \/ ~Finite(b.y) \/ ~Finite(b.w) \/ ~Finite(b.h)
    \/ b.w < 0 \/ b.h < 0

\* c + off hundredths of an inch in EMU: the exact number, or what Python
\* computes for it
Placed(emu, c, off, computed) == emu = (c + off) * 9144 \/ emu = computed

\* C11: add_service_box with a negative width or height or a non-finite
\* coordinate fails with InvalidGeometryError and adds no shape; with valid
\* geometry it adds exactly one rectangle at (x, y, w, h) and one label text
\* box at (x+0.1, y+0.1) of size (w-0.2, h-0.2).
C11_GeometryChecked ==
    BoxCalled =>
        LET b == plan[1].boxes[1]
        IN  IF InvalidGeometry(b)
            THEN pc = "aborted" /\ err = "InvalidGeometryError" /\ prs[1].boxes = <<>>
            ELSE /\ pc = "run"
                 /\ Len(prs[1].boxes) = 1
                 /\ Placed(prs[1].boxes[1].rect.x, b.x, 0, INCHES[b.x])
                 /\ Placed(prs[1].boxes[1].rect.y, b.y, 0, INCHES[b.y])
                 /\ Placed(prs[1].boxes[1].rect.w, b.w, 0, INCHES[b.w])
                 /\ Placed(prs[1].boxes[1].rect.h, b.h, 0, INCHES[b.h])
                 /\ Placed(prs[1].boxes[1].label.x, b.x, 10, INSET[b.x])
                 /\ Placed(prs[1].boxes[1].label.y, b.y, 10, INSET[b.y])
                 /\ Placed(prs[1].boxes[1].label.w, b.w, -20, SHRUNK[b.w])
                 /\ Placed(prs[1].boxes[1].label.h, b.h, -20, SHRUNK[b.h])

====
